---- MODULE Spec2Model ----
(***************************************************************************)
(* A model of the CacheManager of src/lib/cache-manager.ts: the named      *)
(* caches with TTL expiry, the tag index, the durable copies in            *)
(* localStorage, the in-flight table of getOrFetch and the batch queue of  *)
(* enqueueBatch.                                                           *)
(*                                                                         *)
(* Strings that the code joins with ':' and splits again are modelled as   *)
(* sequences of colon-free segments: <<"t">> is "t", <<"a","b">> is "a:b", *)
(* and "t" + ":" + "a:b" is <<"t">> \o <<"a","b">> = <<"t","a","b">>.       *)
(*                                                                         *)
(* JavaScript runs every handler to its next await without interleaving,  *)
(* so each action below is one such run.                                   *)
(***************************************************************************)
EXTENDS Integers, Sequences, FiniteSets, TLC

\* ------------------------------------------------------------------------
\* Bounds of the model
\* ------------------------------------------------------------------------
MaxTime == 1
MaxVer == 1
MaxFetches == 2
MaxCalls == 2
defaultTtl == 1
MaxEnqueues == 3
MaxWindows == 2
MaxFaults == 1
MaxWaiting == 3
MaxLoops == 2
RUNNING_LIMIT == 10

\* ------------------------------------------------------------------------
\* Value domains
\* ------------------------------------------------------------------------
Names == {<<"t">>}
Keys == {<<"a">>, <<"a", "b">>}
Tags == {"A", "B"}
TagOpts == {{"A"}, {"A", "B"}}
NoTtl == -1
TtlOpts == {NoTtl, 0}
Errors == {"e1", "e2"}
\* the JavaScript value null; fetched payloads are the backend versions 0..MaxVer
Null == -1
\* a fetched payload that holds a Date (createdAt: new Date(...)), and the
\* same payload with the Date replaced by its ISO string
DateVal == 100
DateText == 101

\* a cache name that contains ':' ('dpns:forward', 'document:<type>') and a
\* key under it; 't:a' + ':' + 'b' is the same string as 't' + ':' + 'a:b'
ColonName == <<"t", "a">>
ColonKey == <<"b">>

Pairs == (Names \X Keys) \cup {<<ColonName, ColonKey>>}
CacheKeyOf(cacheName, key) == cacheName \o key
CacheKeys == {CacheKeyOf(p[1], p[2]) : p \in Pairs}

\* cacheKey.split(':', 2): the first two ':'-separated pieces, the rest dropped
Split2(cacheKey) == <<SubSeq(cacheKey, 1, 1), SubSeq(cacheKey, 2, 2)>>

NoEntry == [present |-> FALSE]
NoItem == [kind |-> "none"]
CacheOptions == [ttl : TtlOpts, tags : TagOpts]

VARIABLES
    caches,       \* (cacheName, key) -> CacheEntry or NoEntry
    tagIndex,     \* tag -> set of 'cacheName:key' strings
    storage,      \* localStorage: 'cacheName:key' -> stored text or NoItem
    hasWindow,    \* whether window.localStorage is available
    inflight,     \* 'cacheName:key' -> id of the registered promise, 0 if none
    fetches,      \* the fetches started by getOrFetch, by id
    calls,        \* the getOrFetch calls made on this instance and their outcome
    now,          \* Date.now()
    backendVer,   \* the version of the data the fetchers read
    mutator,      \* the caller that mutates the backend, then invalidates tag "A"
    last          \* the last synchronous operation and what it returned

\* the batch queue of one batch name, Map<batchName, queue> with one name in use
VARIABLES
    queue,        \* the queue of the batch name: keys, resolvers, timer
    timers,       \* the number of scheduled flush callbacks not yet run
    windows,      \* the number of flush timers started so far
    flights,      \* the handler invocations, in the order of their flushes
    promises      \* the promises returned by enqueueBatch, by id

batchVars == <<queue, timers, windows, flights, promises>>

\* the key encoders, applied to a pair of structured values
VARIABLES
    encIn,        \* the two values
    encOut        \* the encoder that ran and the two strings it returned

encVars == <<encIn, encOut>>

\* the failures of window.localStorage
VARIABLES
    faults        \* the localStorage methods that throw when they are called

\* the helpers of the network calls (dapi-helpers): rateLimit and retryLoop
VARIABLES
    runningPromises,   \* the counter of rateLimit
    waitingFunctions,  \* the calls rateLimit has put aside, oldest first
    executing,         \* the number of started functions that have not settled
    finishing,         \* the settled functions whose finally callback has not run
    rateLast,          \* the last step of rateLimit and what it did
    loops              \* the retryLoop calls made so far

helperVars == <<runningPromises, waitingFunctions, executing, finishing, rateLast,
                loops>>

cacheVars == <<caches, tagIndex, storage, hasWindow, inflight, fetches, calls,
               now, backendVer, mutator, last>>

\* ------------------------------------------------------------------------
\* The synchronous cache operations, as functions of the store
\* S = [caches, tagIndex, storage]
\* ------------------------------------------------------------------------
Store(c, t, s) == [caches |-> c, tagIndex |-> t, storage |-> s]

\* the methods of window.localStorage the cache calls; Object.keys(localStorage)
\* is "keys"
StorageMethods == {"getItem", "setItem", "removeItem", "keys"}
Throws(method) == method \in faults
NoFaults == faults = {}

EntryAt(S, cacheName, key) ==
    IF <<cacheName, key>> \in Pairs THEN S.caches[<<cacheName, key>>] ELSE NoEntry

Expired(entry, t) == t - entry.timestamp > entry.ttl

\* JSON.stringify(entry) and JSON.parse(raw): numbers, null and string
\* arrays survive the round trip unchanged, a Date comes back as a string
ToJson(data) == IF data = DateVal THEN DateText ELSE data
Stringify(entry) ==
    [kind |-> "json", data |-> ToJson(entry.data), timestamp |-> entry.timestamp,
     ttl |-> entry.ttl, tags |-> entry.tags]
\* the stored text, with a record of the set() call that wrote it (the
\* record is history, the code reads the text only)
Item(entry, cacheName, key) ==
    [text |-> Stringify(entry), kind |-> "json",
     by |-> <<cacheName, key>>, from |-> entry.data]
Parse(raw) ==
    [present |-> TRUE, data |-> raw.data, timestamp |-> raw.timestamp,
     ttl |-> raw.ttl, tags |-> raw.tags]

SetOp(S, cacheName, key, data, options, t, win) ==
    LET entry == [present |-> TRUE, data |-> data, timestamp |-> t,
                  ttl |-> IF options.ttl = NoTtl THEN defaultTtl ELSE options.ttl,
                  tags |-> options.tags]
        cacheKey == CacheKeyOf(cacheName, key)
    IN Store([S.caches EXCEPT ![<<cacheName, key>>] = entry],
             [tag \in Tags |-> IF tag \in entry.tags
                                 THEN S.tagIndex[tag] \cup {cacheKey}
                                 ELSE S.tagIndex[tag]],
             IF win /\ ~Throws("setItem")
               THEN [S.storage EXCEPT ![cacheKey] = Item(entry, cacheName, key)]
               ELSE S.storage)

DeleteOp(S, cacheName, key, win) ==
    LET entry == EntryAt(S, cacheName, key)
        cacheKey == CacheKeyOf(cacheName, key)
        tags == IF entry.present THEN entry.tags ELSE {}
    IN [S |-> Store(IF <<cacheName, key>> \in Pairs
                      THEN [S.caches EXCEPT ![<<cacheName, key>>] = NoEntry]
                      ELSE S.caches,
                    [tag \in Tags |-> IF tag \in tags
                                        THEN S.tagIndex[tag] \ {cacheKey}
                                        ELSE S.tagIndex[tag]],
                    IF win /\ ~Throws("removeItem") /\ cacheKey \in CacheKeys
                      THEN [S.storage EXCEPT ![cacheKey] = NoItem]
                      ELSE S.storage),
        ret |-> entry.present]

\* get(): ret is the returned value; hyd tells whether the entry was taken
\* from localStorage; threw tells whether get() threw (getItem is called
\* outside the try block, removeItem inside the catch block)
GetOp(S, cacheName, key, t, win) ==
    LET cacheKey == CacheKeyOf(cacheName, key)
        inMemory == EntryAt(S, cacheName, key)
        raw == S.storage[cacheKey]
        reads == ~inMemory.present /\ win
        hydrate == reads /\ ~Throws("getItem") /\ raw.kind = "json"
        entry == IF hydrate THEN Parse(raw.text) ELSE inMemory
        S1 == IF hydrate
                THEN Store([S.caches EXCEPT ![<<cacheName, key>>] = entry],
                           [tag \in Tags |-> IF tag \in entry.tags
                                               THEN S.tagIndex[tag] \cup {cacheKey}
                                               ELSE S.tagIndex[tag]],
                           S.storage)
                ELSE S
    IN IF reads /\ Throws("getItem")
         THEN [S |-> S, ret |-> Null, hyd |-> FALSE, threw |-> TRUE]
       ELSE IF reads /\ raw.kind = "corrupt"
         THEN IF Throws("removeItem")
                THEN [S |-> S, ret |-> Null, hyd |-> FALSE, threw |-> TRUE]
                ELSE [S |-> Store(S.caches, S.tagIndex,
                                  [S.storage EXCEPT ![cacheKey] = NoItem]),
                      ret |-> Null, hyd |-> FALSE, threw |-> FALSE]
       ELSE IF ~entry.present
         THEN [S |-> S1, ret |-> Null, hyd |-> FALSE, threw |-> FALSE]
       ELSE IF Expired(entry, t)
              THEN [S |-> DeleteOp(S1, cacheName, key, win).S, ret |-> Null,
                    hyd |-> hydrate, threw |-> FALSE]
              ELSE [S |-> S1, ret |-> entry.data, hyd |-> hydrate, threw |-> FALSE]

\* has(): when get() throws, has() throws and returns nothing
HasOp(S, cacheName, key, t, win) ==
    LET g == GetOp(S, cacheName, key, t, win)
    IN [S |-> g.S, ret |-> ~g.threw /\ g.ret # Null, hyd |-> g.hyd, threw |-> g.threw]

\* delete() applied to every element of a list of (cacheName, key) pairs,
\* counting the calls that returned true
RECURSIVE DeleteAll(_, _, _)
DeleteAll(S, todo, win) ==
    IF todo = {} THEN [S |-> S, ret |-> 0]
    ELSE LET p == CHOOSE q \in todo : TRUE
             d == DeleteOp(S, p[1], p[2], win)
             rest == DeleteAll(d.S, todo \ {p}, win)
         IN [S |-> rest.S, ret |-> rest.ret + (IF d.ret THEN 1 ELSE 0)]

\* delete() applied to the split of every cache key of a list, one call per
\* list element
RECURSIVE DeleteSplit(_, _, _)
DeleteSplit(S, cacheKeys, win) ==
    IF cacheKeys = {} THEN [S |-> S, ret |-> 0]
    ELSE LET ck == CHOOSE q \in cacheKeys : TRUE
             p == Split2(ck)
             d == DeleteOp(S, p[1], p[2], win)
             rest == DeleteSplit(d.S, cacheKeys \ {ck}, win)
         IN [S |-> rest.S, ret |-> rest.ret + (IF d.ret THEN 1 ELSE 0)]

InvalidateByTagOp(S, tag, win) == DeleteSplit(S, S.tagIndex[tag], win)

IsPrefix(s, t) == Len(s) <= Len(t) /\ SubSeq(t, 1, Len(s)) = s

ClearOp(S, cacheName, win) ==
    LET held == {p \in Pairs : p[1] = cacheName /\ S.caches[p].present}
        untag(tag) == {CacheKeyOf(p[1], p[2]) :
                         p \in {q \in held : tag \in S.caches[q].tags}}
    IN Store([p \in Pairs |-> IF p[1] = cacheName THEN NoEntry ELSE S.caches[p]],
             [tag \in Tags |-> S.tagIndex[tag] \ untag(tag)],
             IF win /\ ~Throws("keys") /\ ~Throws("removeItem")
               THEN [ck \in CacheKeys |->
                       IF Len(ck) > Len(cacheName) /\ IsPrefix(cacheName, ck)
                         THEN NoItem ELSE S.storage[ck]]
               ELSE S.storage)

CleanupOp(S, t, win) ==
    DeleteAll(S, {p \in Pairs : S.caches[p].present /\ Expired(S.caches[p], t)}, win)

ClearAllOp(S, win) ==
    Store([p \in Pairs |-> NoEntry],
          [tag \in Tags |-> {}],
          IF win /\ ~Throws("keys") /\ ~Throws("removeItem")
            THEN [ck \in CacheKeys |-> NoItem] ELSE S.storage)

\* ------------------------------------------------------------------------
\* The state machine of the cache and of getOrFetch
\* ------------------------------------------------------------------------
Cur == Store(caches, tagIndex, storage)

Install(S) ==
    /\ caches' = S.caches
    /\ tagIndex' = S.tagIndex
    /\ storage' = S.storage

\* the backend version for which 'mutate, then invalidateByTag' has completed
InvalidatedVer == IF mutator = "mutated" THEN backendVer - 1 ELSE backendVer

\* the fetches on (cacheName, key) whose fetcher has not settled
PendingOn(cacheName, key) ==
    {fid \in DOMAIN fetches : /\ fetches[fid].st = "pending"
                              /\ fetches[fid].name = cacheName
                              /\ fetches[fid].key = key}

\* a getOrFetch call that was handed a promise: the promise it holds and the
\* backend version whose invalidation had returned when the call began
Holder(fid) == [fid |-> fid, minVer |-> InvalidatedVer]

\* what a getOrFetch call did: "hit" (returned val from the cache), "join"
\* (returned the registered promise), "start" (called the fetcher) or
\* "threw" (get() threw, the returned promise is rejected)
Answer(cacheName, key, mode, val, hyd) ==
    [op |-> "getOrFetch", name |-> cacheName, key |-> key, mode |-> mode,
     val |-> val, minVer |-> InvalidatedVer, hyd |-> hyd]

Other == [op |-> "other"]

\* this.inflight.get(inflightKey)
Existing_NoDedup(inflightKey) == 0
Existing(inflightKey) == inflight[inflightKey]

\* this.inflight.delete(inflightKey) of the finally block
ClearInflight_Leak(table, inflightKey) == table
ClearInflight(table, inflightKey) == [table EXCEPT ![inflightKey] = 0]

CacheInit ==
    /\ caches = [p \in Pairs |-> NoEntry]
    /\ tagIndex = [tag \in Tags |-> {}]
    /\ storage = [ck \in CacheKeys |-> NoItem]
    /\ hasWindow \in BOOLEAN
    /\ inflight = [ck \in CacheKeys |-> 0]
    /\ fetches = <<>>
    /\ calls = <<>>
    /\ now = 0
    /\ backendVer = 0
    /\ mutator = "idle"
    /\ last = Other

\* getOrFetch up to its return: a cache hit, a join of the registered
\* promise, or the start of the fetcher followed by its registration
GetOrFetch(cacheName, key) ==
    LET g == GetOp(Cur, cacheName, key, now, hasWindow)
        inflightKey == CacheKeyOf(cacheName, key)
        existing == Existing(inflightKey)
        fid == Len(fetches) + 1
    IN /\ Install(g.S)
       /\ UNCHANGED <<hasWindow, now, backendVer, mutator>>
       /\ UNCHANGED <<batchVars, encVars, faults, helperVars>>
       /\ IF g.threw
            THEN /\ last' = Answer(cacheName, key, "threw", Null, FALSE)
                 /\ UNCHANGED <<inflight, fetches, calls>>
            ELSE IF g.ret # Null
            THEN /\ last' = Answer(cacheName, key, "hit", g.ret, g.hyd)
                 /\ UNCHANGED <<inflight, fetches, calls>>
            ELSE IF existing # 0
            THEN /\ Len(calls) < MaxCalls
                 /\ last' = Answer(cacheName, key, "join", Null, g.hyd)
                 /\ calls' = Append(calls, Holder(existing))
                 /\ UNCHANGED <<inflight, fetches>>
            ELSE /\ Len(calls) < MaxCalls
                 /\ Len(fetches) < MaxFetches
                 /\ last' = Answer(cacheName, key, "start", Null, g.hyd)
                 /\ fetches' = Append(fetches,
                        [st |-> "pending", name |-> cacheName, key |-> key,
                         startVer |-> backendVer])
                 /\ inflight' = [inflight EXCEPT ![inflightKey] = fid]
                 /\ calls' = Append(calls, Holder(fid))

\* the fetcher of fetch fid resolves with val: set() with the options of the
\* call that started it, then the finally block.  The options are read only
\* here, so the model draws them here; a settled promise keeps its
\* settlement only.
FetchResolve(fid, val, options) ==
    LET f == fetches[fid]
    IN /\ f.st = "pending"
       /\ val \in {Null, DateVal} \/ (val >= f.startVer /\ val <= backendVer)
       /\ Install(SetOp(Cur, f.name, f.key, val, options, now, hasWindow))
       /\ inflight' = ClearInflight(inflight, CacheKeyOf(f.name, f.key))
       /\ fetches' = [fetches EXCEPT ![fid] = [st |-> "resolved", val |-> val]]
       /\ last' = Other
       /\ UNCHANGED <<hasWindow, calls, now, backendVer, mutator>>
       /\ UNCHANGED <<batchVars, encVars, faults, helperVars>>

\* the fetcher of fetch fid rejects with err: only the finally block runs
FetchReject(fid, err) ==
    LET f == fetches[fid]
    IN /\ f.st = "pending"
       /\ inflight' = ClearInflight(inflight, CacheKeyOf(f.name, f.key))
       /\ fetches' = [fetches EXCEPT ![fid] = [st |-> "rejected", val |-> err]]
       /\ last' = Other
       /\ UNCHANGED <<caches, tagIndex, storage, hasWindow, calls, now, backendVer,
                      mutator>>
       /\ UNCHANGED <<batchVars, encVars, faults, helperVars>>

Has(cacheName, key) ==
    LET h == HasOp(Cur, cacheName, key, now, hasWindow)
    IN /\ Install(h.S)
       /\ last' = [op |-> "has", name |-> cacheName, key |-> key, ret |-> h.ret,
                   hyd |-> h.hyd, threw |-> h.threw]
       /\ UNCHANGED <<hasWindow, inflight, fetches, calls, now, backendVer, mutator>>
       /\ UNCHANGED <<batchVars, encVars, faults, helperVars>>

Delete(cacheName, key) ==
    LET d == DeleteOp(Cur, cacheName, key, hasWindow)
    IN /\ Install(d.S)
       /\ last' = [op |-> "delete", name |-> cacheName, key |-> key, ret |-> d.ret]
       /\ UNCHANGED <<hasWindow, inflight, fetches, calls, now, backendVer, mutator>>
       /\ UNCHANGED <<batchVars, encVars, faults, helperVars>>

Clear(cacheName) ==
    /\ Install(ClearOp(Cur, cacheName, hasWindow))
    /\ last' = [op |-> "clear", name |-> cacheName]
    /\ UNCHANGED <<hasWindow, inflight, fetches, calls, now, backendVer, mutator>>
    /\ UNCHANGED <<batchVars, encVars, faults, helperVars>>

InvalidateByTag(tag) ==
    LET r == InvalidateByTagOp(Cur, tag, hasWindow)
    IN /\ Install(r.S)
       /\ last' = [op |-> "invalidateByTag", tag |-> tag, ret |-> r.ret]
       /\ UNCHANGED <<hasWindow, inflight, fetches, calls, now, backendVer, mutator>>
       /\ UNCHANGED <<batchVars, encVars, faults, helperVars>>

Cleanup ==
    LET r == CleanupOp(Cur, now, hasWindow)
    IN /\ Install(r.S)
       /\ last' = [op |-> "cleanup", ret |-> r.ret]
       /\ UNCHANGED <<hasWindow, inflight, fetches, calls, now, backendVer, mutator>>
       /\ UNCHANGED <<batchVars, encVars, faults, helperVars>>

ClearAll ==
    /\ Install(ClearAllOp(Cur, hasWindow))
    /\ last' = Other
    /\ UNCHANGED <<hasWindow, inflight, fetches, calls, now, backendVer, mutator>>
    /\ UNCHANGED <<batchVars, encVars, faults, helperVars>>

\* a caller changes the backend record ...
MutateBackend ==
    /\ mutator = "idle"
    /\ backendVer < MaxVer
    /\ backendVer' = backendVer + 1
    /\ mutator' = "mutated"
    /\ last' = Other
    /\ UNCHANGED <<caches, tagIndex, storage, hasWindow, inflight, fetches, calls, now>>
    /\ UNCHANGED <<batchVars, encVars, faults, helperVars>>

\* ... and then invalidates the tag of the entries that depend on it
InvalidateAfterMutate ==
    LET r == InvalidateByTagOp(Cur, "A", hasWindow)
    IN /\ mutator = "mutated"
       /\ Install(r.S)
       /\ mutator' = "idle"
       /\ last' = [op |-> "invalidateByTag", tag |-> "A", ret |-> r.ret]
       /\ UNCHANGED <<hasWindow, inflight, fetches, calls, now, backendVer>>
       /\ UNCHANGED <<batchVars, encVars, faults, helperVars>>

\* time passes
Tick ==
    /\ now < MaxTime
    /\ now' = now + 1
    /\ last' = Other
    /\ UNCHANGED <<caches, tagIndex, storage, hasWindow, inflight, fetches, calls,
                   backendVer, mutator>>
    /\ UNCHANGED <<batchVars, encVars, faults, helperVars>>

\* a call of a method wrapped by cached(cacheName, keyGenerator, options):
\* the key is keyGenerator(...args), the fetcher is the original method
ArgLists == {<<1, 2>>, <<1, 3>>, <<2, 2>>}
KeyGenerator(args) == IF args[1] = 1 THEN <<"a">> ELSE <<"a", "b">>
Cached(args) == GetOrFetch(<<"t">>, KeyGenerator(args))

\* BaseDocumentService of one document type: the cache name is
\* 'document:<type>' (ColonName), a document id is ColonKey, tag "A" is
\* 'doctype:<type>' and tag "B" is 'docid:<type>:<id>'
DocGet == GetOrFetch(ColonName, ColonKey)

\* create, update or delete after the state transition has succeeded: the
\* invalidateByTag calls that follow it
Methods == {"create", "update", "delete"}
AfterWrite(method) ==
    LET r1 == InvalidateByTagOp(Cur, "A", hasWindow)
        r2 == IF method = "create" THEN r1
              ELSE InvalidateByTagOp(r1.S, "B", hasWindow)
    IN /\ mutator = "mutated"
       /\ Install(r2.S)
       /\ mutator' = "idle"
       /\ last' = [op |-> "written", method |-> method]
       /\ UNCHANGED <<hasWindow, inflight, fetches, calls, now, backendVer>>
       /\ UNCHANGED <<batchVars, encVars, faults, helperVars>>

\* PostService.getPostStats: getOrFetch on the cache 'post:stats'
GetPostStats == GetOrFetch(ColonName, ColonKey)

\* PostService.createPost after posts.create has resolved: it returns the
\* transformed document; invalidated is the set of tags it has passed to
\* invalidateByTag on the way
CreatePostReturn ==
    /\ mutator = "mutated"
    /\ mutator' = "idle"
    /\ last' = [op |-> "createPost", invalidated |-> {}]
    /\ UNCHANGED <<caches, tagIndex, storage, hasWindow, inflight, fetches, calls,
                   now, backendVer>>
    /\ UNCHANGED <<batchVars, encVars, faults, helperVars>>

\* the page is reloaded: a new CacheManager with empty maps is constructed
\* over the localStorage the old one wrote; the fetches of the old page
\* never settle
Reload ==
    /\ caches' = [p \in Pairs |-> NoEntry]
    /\ tagIndex' = [tag \in Tags |-> {}]
    /\ inflight' = [ck \in CacheKeys |-> 0]
    /\ fetches' = [fid \in DOMAIN fetches |->
                      IF fetches[fid].st = "pending"
                        THEN [st |-> "abandoned", val |-> Null]
                        ELSE fetches[fid]]
    /\ last' = [op |-> "new"]
    /\ UNCHANGED <<storage, hasWindow, calls, now, backendVer, mutator>>
    /\ UNCHANGED <<batchVars, encVars, faults, helperVars>>

\* ------------------------------------------------------------------------
\* The state machine of enqueueBatch
\* ------------------------------------------------------------------------
BatchKeys == {"k1", "k2"}
Vals == {1, 2}

NoQueue == [exists |-> FALSE]
NoSettlement == [kind |-> "none"]
MissingResult(key) == [kind |-> "missing", key |-> key]
Thrown(err) == [kind |-> "thrown", err |-> err]
Value(v) == [kind |-> "value", v |-> v]

\* Set.add appends a key that is not yet in the set and keeps the position
\* of one that is
SetAdd(keys, key) ==
    IF \E i \in DOMAIN keys : keys[i] = key THEN keys ELSE Append(keys, key)

BatchInit ==
    /\ queue = NoQueue
    /\ timers = 0
    /\ windows = 0
    /\ flights = <<>>
    /\ promises = <<>>

\* enqueueBatch: create the queue on first use, register the key and the
\* resolver of the new promise, start the flush timer unless one is set
Enqueue(key) ==
    LET q == IF queue.exists THEN queue
             ELSE [exists |-> TRUE, keys |-> <<>>,
                   resolvers |-> [k \in BatchKeys |-> 0], timer |-> FALSE]
        pid == Len(promises) + 1
        starts == ~q.timer
    IN /\ Len(promises) < MaxEnqueues
       /\ starts => windows < MaxWindows
       /\ promises' = Append(promises,
              [key |-> key, win |-> IF starts THEN windows + 1 ELSE windows,
               st |-> "pending", val |-> NoSettlement])
       /\ queue' = [q EXCEPT !.keys = SetAdd(q.keys, key),
                             !.resolvers[key] = pid,
                             !.timer = TRUE]
       /\ timers' = IF starts THEN timers + 1 ELSE timers
       /\ windows' = IF starts THEN windows + 1 ELSE windows
       /\ UNCHANGED flights
       /\ UNCHANGED <<cacheVars, encVars, faults, helperVars>>

\* queue.keys.clear(); queue.resolvers.clear(); queue.timer = undefined
ResetQueue_KeepKeys(q) == [q EXCEPT !.timer = FALSE]
ResetQueue(q) ==
    [q EXCEPT !.keys = <<>>, !.resolvers = [k \in BatchKeys |-> 0], !.timer = FALSE]

\* the timer callback up to its await: copy the keys and the resolvers,
\* reset the queue, call the handler with the keys
TimerFire ==
    /\ timers > 0
    /\ timers' = timers - 1
    /\ flights' = Append(flights,
           [keys |-> queue.keys, resolvers |-> queue.resolvers,
            st |-> "running", out |-> NoSettlement])
    /\ queue' = ResetQueue(queue)
    /\ UNCHANGED <<windows, promises>>
    /\ UNCHANGED <<cacheVars, encVars, faults, helperVars>>

\* resolve or reject of a promise: only a pending promise changes
Settle(ps, pid, st, val) ==
    IF pid \in DOMAIN ps /\ ps[pid].st = "pending"
      THEN [ps EXCEPT ![pid].st = st, ![pid].val = val]
      ELSE ps

\* the loop over the keys after the handler has returned data
RECURSIVE ReturnSettle(_, _, _, _)
ReturnSettle(ps, keys, resolvers, data) ==
    IF keys = <<>> THEN ps
    ELSE LET k == Head(keys)
             r == resolvers[k]
             ps1 == IF r = 0 THEN ps
                    ELSE IF k \in DOMAIN data
                           THEN Settle(ps, r, "resolved", Value(data[k]))
                           ELSE Settle(ps, r, "rejected", MissingResult(k))
         IN ReturnSettle(ps1, Tail(keys), resolvers, data)

\* the catch block: every resolver of the copied map is rejected
RECURSIVE ThrowSettleAll(_, _, _, _)
ThrowSettleAll(ps, todo, resolvers, err) ==
    IF todo = {} THEN ps
    ELSE LET k == CHOOSE x \in todo : TRUE
         IN ThrowSettleAll(Settle(ps, resolvers[k], "rejected", Thrown(err)),
                           todo \ {k}, resolvers, err)
ThrowSettle_EveryPending(ps, resolvers, err) ==
    [pid \in DOMAIN ps |-> IF ps[pid].st = "pending"
                             THEN [ps[pid] EXCEPT !.st = "rejected", !.val = Thrown(err)]
                             ELSE ps[pid]]
ThrowSettle(ps, resolvers, err) ==
    ThrowSettleAll(ps, {k \in BatchKeys : resolvers[k] # 0}, resolvers, err)

\* the handler of flight i resolves with data, a record of results by key
HandlerReturn(i, data) ==
    /\ flights[i].st = "running"
    /\ flights' = [flights EXCEPT ![i].st = "returned", ![i].out = data]
    /\ promises' = ReturnSettle(promises, flights[i].keys, flights[i].resolvers, data)
    /\ UNCHANGED <<queue, timers, windows>>
    /\ UNCHANGED <<cacheVars, encVars, faults, helperVars>>

\* the handler of flight i throws or rejects with err
HandlerThrow(i, err) ==
    /\ flights[i].st = "running"
    /\ flights' = [flights EXCEPT ![i].st = "threw", ![i].out = Thrown(err)]
    /\ promises' = ThrowSettle(promises, flights[i].resolvers, err)
    /\ UNCHANGED <<queue, timers, windows>>
    /\ UNCHANGED <<cacheVars, encVars, faults, helperVars>>

\* ------------------------------------------------------------------------
\* The key encoders.  A structured value is a number, an array or an object
\* whose properties are kept in insertion order; a string is the sequence
\* of its tokens.
\* ------------------------------------------------------------------------
Num(n) == [t |-> "num", n |-> n]
Arr(items) == [t |-> "arr", items |-> items]
Obj(props) == [t |-> "obj", props |-> props]
Prop(k, v) == [k |-> k, v |-> v]
PropNames == <<"x", "y">>

Nums == {Num(n) : n \in {"1", "2"}}
\* the objects {x: v, y: w}, written in both insertion orders
TwoProps(V, W) ==
    {Obj(<<Prop("x", v), Prop("y", w)>>) : v \in V, w \in W}
        \cup {Obj(<<Prop("y", w), Prop("x", v)>>) : v \in V, w \in W}
FlatObjs == TwoProps(Nums, Nums)
FlatArrs == {Arr(<<v, w>>) : v \in Nums, w \in Nums}
NestedObjs == TwoProps(FlatObjs, {Num("1")})
NestedArrs == {Arr(<<o>>) : o \in FlatObjs}
Values == Nums \cup FlatObjs \cup FlatArrs \cup NestedObjs \cup NestedArrs

\* JSON.stringify: the properties of an object in insertion order
RECURSIVE JsonStringify(_), JsonItems(_), JsonProps(_)
JsonStringify(v) ==
    IF v.t = "num" THEN <<v.n>>
    ELSE IF v.t = "arr" THEN <<"[">> \o JsonItems(v.items) \o <<"]">>
    ELSE <<"{">> \o JsonProps(v.props) \o <<"}">>
JsonItems(items) ==
    IF items = <<>> THEN <<>>
    ELSE JsonStringify(Head(items)) \o <<",">> \o JsonItems(Tail(items))
JsonProps(props) ==
    IF props = <<>> THEN <<>>
    ELSE <<Head(props).k, ":">> \o JsonStringify(Head(props).v) \o <<",">>
             \o JsonProps(Tail(props))

\* the key of a call of a method wrapped by cached() without keyGenerator:
\* JSON.stringify(args), args being the array of the arguments
DefaultKey(arg) == JsonStringify(Arr(<<arg>>))

\* CacheManager.safeStringify: as JSON.stringify, with the properties of
\* every object in the order of their names
RECURSIVE SortedProps(_, _)
SortedProps(props, names) ==
    IF names = <<>> THEN <<>>
    ELSE LET here == {i \in DOMAIN props : props[i].k = Head(names)}
         IN (IF here = {} THEN <<>> ELSE <<props[CHOOSE i \in here : TRUE]>>)
                \o SortedProps(props, Tail(names))
RECURSIVE SafeStringify(_), SafeItems(_), SafeProps(_)
SafeStringify(v) ==
    IF v.t = "num" THEN <<v.n>>
    ELSE IF v.t = "arr" THEN <<"[">> \o SafeItems(v.items) \o <<"]">>
    ELSE <<"{">> \o SafeProps(SortedProps(v.props, PropNames)) \o <<"}">>
SafeItems(items) ==
    IF items = <<>> THEN <<>>
    ELSE SafeStringify(Head(items)) \o <<",">> \o SafeItems(Tail(items))
SafeProps(props) ==
    IF props = <<>> THEN <<>>
    ELSE <<Head(props).k, ":">> \o SafeStringify(Head(props).v) \o <<",">>
             \o SafeProps(Tail(props))

NotEncoded == [by |-> "none"]

EncIdle ==
    /\ encIn = <<>>
    /\ encOut = NotEncoded

EncInit ==
    /\ encIn \in Values \X Values
    /\ encOut = NotEncoded

\* the two values are used as cache keys through safeStringify
EncodeSafe ==
    /\ encOut = NotEncoded
    /\ encOut' = [by |-> "safeStringify", a |-> SafeStringify(encIn[1]),
                   b |-> SafeStringify(encIn[2])]
    /\ UNCHANGED <<encIn, cacheVars, batchVars, faults, helperVars>>

\* the two values are the argument of two calls of a method wrapped by
\* cached() without keyGenerator
EncodeDefaultKey ==
    /\ encOut = NotEncoded
    /\ encOut' = [by |-> "defaultKey", a |-> DefaultKey(encIn[1]),
                   b |-> DefaultKey(encIn[2])]
    /\ UNCHANGED <<encIn, cacheVars, batchVars, faults, helperVars>>

\* ------------------------------------------------------------------------
\* getOrFetch and getOrFetchBatch step by step: the fetcher is invoked inside
\* the async wrapper, and this.inflight.set runs after the wrapper has
\* returned, that is after the synchronous part of the fetcher.  A fetch is
\* "running" while its fetcher executes its synchronous part and "pending"
\* once the fetcher has returned its promise.  The running fetches are the
\* call stack: the newest one is the one that executes.
\* ------------------------------------------------------------------------
NoKey == <<>>
Undefined == -2

Running == {fid \in DOMAIN fetches : fetches[fid].st = "running"}
Top == CHOOSE fid \in Running : \A other \in Running : other <= fid

\* the in-flight keys of a fetch: one for getOrFetch, one per fetched key for
\* getOrFetchBatch
FlightKeys(f) ==
    IF f.key = NoKey THEN {CacheKeyOf(f.name, k) : k \in f.keys}
                     ELSE {CacheKeyOf(f.name, f.key)}

\* a getOrFetch call that was handed a promise, with the pair it asked for
Joiner(fid, cacheName, key) ==
    [fid |-> fid, minVer |-> InvalidatedVer, name |-> cacheName, key |-> key]

\* getOrFetch from its first line to the invocation of the fetcher
EnterGetOrFetch(cacheName, key) ==
    LET g == GetOp(Cur, cacheName, key, now, hasWindow)
        inflightKey == CacheKeyOf(cacheName, key)
        existing == Existing(inflightKey)
        fid == Len(fetches) + 1
    IN /\ Install(g.S)
       /\ UNCHANGED <<hasWindow, now, backendVer, mutator, inflight>>
       /\ UNCHANGED <<batchVars, encVars, faults, helperVars>>
       /\ IF g.threw
            THEN /\ last' = Answer(cacheName, key, "threw", Null, FALSE)
                 /\ UNCHANGED <<fetches, calls>>
            ELSE IF g.ret # Null
            THEN /\ last' = Answer(cacheName, key, "hit", g.ret, g.hyd)
                 /\ UNCHANGED <<fetches, calls>>
            ELSE IF existing # 0
            THEN /\ Len(calls) < MaxCalls
                 /\ last' = Answer(cacheName, key, "join", Null, g.hyd)
                 /\ calls' = Append(calls, Joiner(existing, cacheName, key))
                 /\ UNCHANGED fetches
            ELSE /\ Len(calls) < MaxCalls
                 /\ Len(fetches) < MaxFetches
                 /\ last' = Answer(cacheName, key, "start", Null, g.hyd)
                 /\ fetches' = Append(fetches,
                        [st |-> "running", name |-> cacheName, key |-> key,
                         startVer |-> backendVer])
                 /\ calls' = Append(calls, Joiner(fid, cacheName, key))

\* the executing fetcher returns its promise: the wrapper suspends at the
\* await and returns, and this.inflight.set registers the wrapper's promise
FetcherReturns ==
    /\ Running # {}
    /\ fetches' = [fetches EXCEPT ![Top].st = "pending"]
    /\ inflight' = [ck \in CacheKeys |->
                       IF ck \in FlightKeys(fetches[Top]) THEN Top ELSE inflight[ck]]
    /\ last' = Other
    /\ UNCHANGED <<caches, tagIndex, storage, hasWindow, calls, now, backendVer,
                   mutator>>
    /\ UNCHANGED <<batchVars, encVars, faults, helperVars>>

\* the executing fetcher throws before it returns a promise: the finally
\* block runs at once, the wrapper returns a rejected promise, and
\* this.inflight.set registers that promise
FetcherThrows(err) ==
    /\ Running # {}
    /\ fetches' = [fetches EXCEPT ![Top] = [st |-> "rejected", val |-> err]]
    /\ inflight' = [ck \in CacheKeys |->
                       IF ck \in FlightKeys(fetches[Top]) THEN Top ELSE inflight[ck]]
    /\ last' = Other
    /\ UNCHANGED <<caches, tagIndex, storage, hasWindow, calls, now, backendVer,
                   mutator>>
    /\ UNCHANGED <<batchVars, encVars, faults, helperVars>>

\* a settlement is a new task: it runs when no fetcher is executing
SettleResolve(fid, val, options) ==
    /\ Running = {}
    /\ fetches[fid].st = "pending"
    /\ fetches[fid].key # NoKey
    /\ FetchResolve(fid, val, options)

SettleReject(fid, err) ==
    /\ Running = {}
    /\ fetches[fid].st = "pending"
    /\ fetches[fid].key # NoKey
    /\ FetchReject(fid, err)

\* get() applied to every key of a list: the store afterwards and the keys
\* for which it returned null
RECURSIVE GetAll(_, _, _, _, _)
GetAll(S, cacheName, keys, t, win) ==
    IF keys = {} THEN [S |-> S, missing |-> {}]
    ELSE LET key == CHOOSE k \in keys : TRUE
             g == GetOp(S, cacheName, key, t, win)
             rest == GetAll(g.S, cacheName, keys \ {key}, t, win)
         IN [S |-> rest.S,
             missing |-> rest.missing \cup (IF g.ret = Null THEN {key} ELSE {})]

\* set() applied to every fetched key of a batch
RECURSIVE SetAll(_, _, _, _, _, _, _)
SetAll(S, cacheName, keys, fetched, options, t, win) ==
    IF keys = {} THEN S
    ELSE LET key == CHOOSE k \in keys : TRUE
         IN SetAll(SetOp(S, cacheName, key, fetched[key], options, t, win),
                   cacheName, keys \ {key}, fetched, options, t, win)

BatchLists == SUBSET Keys \ {{}}

\* getOrFetchBatch from its first line to the invocation of batchFetcher:
\* the cached keys are read, the missing keys that are in flight are awaited,
\* the others are handed to batchFetcher in one call
EnterGetOrFetchBatch(cacheName, keys) ==
    LET g == GetAll(Cur, cacheName, keys, now, hasWindow)
        awaited == {k \in g.missing : Existing(CacheKeyOf(cacheName, k)) # 0}
        fetchNeeded == g.missing \ awaited
    IN /\ Install(g.S)
       /\ last' = [op |-> "getOrFetchBatch", name |-> cacheName, keys |-> keys,
                   fetchNeeded |-> fetchNeeded]
       /\ IF fetchNeeded = {}
            THEN UNCHANGED fetches
            ELSE /\ Len(fetches) < MaxFetches
                 /\ fetches' = Append(fetches,
                        [st |-> "running", name |-> cacheName, key |-> NoKey,
                         keys |-> fetchNeeded, startVer |-> backendVer])
       /\ UNCHANGED <<hasWindow, inflight, calls, now, backendVer, mutator>>
       /\ UNCHANGED <<batchVars, encVars, faults, helperVars>>

\* the mappings a batchFetcher may resolve with
Fetched == UNION {[ks -> {0}] : ks \in SUBSET Keys}

\* batchFetcher resolves with the mapping fetched: each requested key that
\* is in the mapping is stored, then the finally block deletes the in-flight
\* keys of the batch; the wrapper's promise resolves with undefined
BatchResolve(fid, fetched, options) ==
    LET f == fetches[fid]
    IN /\ Running = {}
       /\ f.st = "pending"
       /\ f.key = NoKey
       /\ Install(SetAll(Cur, f.name, f.keys \cap DOMAIN fetched, fetched, options,
                         now, hasWindow))
       /\ inflight' = [ck \in CacheKeys |->
                          IF ck \in FlightKeys(f) THEN 0 ELSE inflight[ck]]
       /\ fetches' = [fetches EXCEPT ![fid] =
                         [st |-> "resolved", val |-> Undefined,
                          fetched |-> [k \in f.keys \cap DOMAIN fetched |->
                                         fetched[k]]]]
       /\ last' = Other
       /\ UNCHANGED <<hasWindow, calls, now, backendVer, mutator>>
       /\ UNCHANGED <<batchVars, encVars, faults, helperVars>>

\* batchFetcher rejects: only the finally block runs
BatchReject(fid, err) ==
    LET f == fetches[fid]
    IN /\ Running = {}
       /\ f.st = "pending"
       /\ f.key = NoKey
       /\ inflight' = [ck \in CacheKeys |->
                          IF ck \in FlightKeys(f) THEN 0 ELSE inflight[ck]]
       /\ fetches' = [fetches EXCEPT ![fid] = [st |-> "rejected", val |-> err]]
       /\ last' = Other
       /\ UNCHANGED <<caches, tagIndex, storage, hasWindow, calls, now, backendVer,
                      mutator>>
       /\ UNCHANGED <<batchVars, encVars, faults, helperVars>>

\* a method of window.localStorage starts to throw (quota exceeded, storage
\* access denied)
Break(method) ==
    /\ hasWindow
    /\ Cardinality(faults) < MaxFaults
    /\ method \notin faults
    /\ faults' = faults \cup {method}
    /\ last' = Other
    /\ UNCHANGED <<caches, tagIndex, storage, hasWindow, inflight, fetches, calls,
                   now, backendVer, mutator>>
    /\ UNCHANGED <<batchVars, encVars, helperVars>>

\* something else (another tab, an older build) leaves a text that JSON.parse
\* rejects under a key of the cache
Garble(cacheKey) ==
    /\ hasWindow
    /\ storage[cacheKey].kind # "corrupt"
    /\ storage' = [storage EXCEPT ![cacheKey] = [kind |-> "corrupt"]]
    /\ last' = Other
    /\ UNCHANGED <<caches, tagIndex, hasWindow, inflight, fetches, calls,
                   now, backendVer, mutator>>
    /\ UNCHANGED <<batchVars, encVars, faults, helperVars>>

\* ------------------------------------------------------------------------
\* rateLimit and rateLimitedFinished.  The functions are the async functions
\* the callers pass: they settle through their promise.  A call that is put
\* aside is known by a ticket; the started functions are counted.
\* ------------------------------------------------------------------------
Tickets == 1 .. MaxWaiting
Outcomes == {"resolve", "reject"}

HelperInit ==
    /\ runningPromises = 0
    /\ waitingFunctions = <<>>
    /\ executing = 0
    /\ finishing = 0
    /\ rateLast = [op |-> "none"]
    /\ loops = <<>>

Waiting == {waitingFunctions[n] : n \in DOMAIN waitingFunctions}

\* runningPromises < RUNNING_LIMIT
HasSlot_OneMore(n) == n <= RUNNING_LIMIT
HasSlot(n) == n < RUNNING_LIMIT

\* waitingFunctions.pop(): the element that was pushed last
Pop(stack) == [fn |-> stack[Len(stack)], rest |-> SubSeq(stack, 1, Len(stack) - 1)]

\* rateLimit(fn): start fn if a slot is free, else put the call aside
RateLimit ==
    /\ IF HasSlot(runningPromises)
         THEN /\ runningPromises' = runningPromises + 1
              /\ executing' = executing + 1
              /\ rateLast' = [op |-> "rateLimit", started |-> TRUE]
              /\ UNCHANGED waitingFunctions
         ELSE /\ Len(waitingFunctions) < MaxWaiting
              /\ \E ticket \in Tickets \ Waiting :
                    /\ \A other \in Tickets \ Waiting : ticket <= other
                    /\ waitingFunctions' = Append(waitingFunctions, ticket)
              /\ rateLast' = [op |-> "rateLimit", started |-> FALSE]
              /\ UNCHANGED <<runningPromises, executing>>
    /\ UNCHANGED <<finishing, loops>>
    /\ UNCHANGED <<cacheVars, batchVars, encVars, faults>>

\* a started function resolves or rejects; its finally callback is queued
FnSettles(outcome) ==
    /\ executing > 0
    /\ executing' = executing - 1
    /\ finishing' = finishing + 1
    /\ rateLast' = [op |-> "settled", outcome |-> outcome]
    /\ UNCHANGED <<runningPromises, waitingFunctions, loops>>
    /\ UNCHANGED <<cacheVars, batchVars, encVars, faults>>

\* rateLimitedFinished: start a call that was put aside, or free the slot
RateLimitedFinished ==
    /\ finishing > 0
    /\ finishing' = finishing - 1
    /\ IF waitingFunctions # <<>>
         THEN /\ waitingFunctions' = Pop(waitingFunctions).rest
              /\ executing' = executing + 1
              /\ rateLast' = [op |-> "finished", started |-> Pop(waitingFunctions).fn]
              /\ UNCHANGED runningPromises
         ELSE /\ runningPromises' = runningPromises - 1
              /\ rateLast' = [op |-> "finished", started |-> 0]
              /\ UNCHANGED <<waitingFunctions, executing>>
    /\ UNCHANGED loops
    /\ UNCHANGED <<cacheVars, batchVars, encVars, faults>>

\* ------------------------------------------------------------------------
\* retryLoop(fn, shouldRetry, failed), one record per call: pc is where the
\* call is suspended ("fn": at await fn(), "shouldRetry": at await
\* shouldRetry(e)) or "done"
\* ------------------------------------------------------------------------
RetryErrors == {"r1"}
NoErr == "none"
Unfinished == [kind |-> "none"]
Returned(v) == [kind |-> "returned", v |-> v]
Threw(err) == [kind |-> "thrown", err |-> err]

\* the call starts: retry = true, first fn() invoked
RetryLoop(withFailed) ==
    /\ Len(loops) < MaxLoops
    /\ loops' = Append(loops,
           [pc |-> "fn", retry |-> TRUE, attempts |-> 1, asked |-> 0,
            withFailed |-> withFailed, failedCalls |-> 0, fnErr |-> NoErr,
            out |-> Unfinished])
    /\ UNCHANGED <<runningPromises, waitingFunctions, executing, finishing, rateLast>>
    /\ UNCHANGED <<cacheVars, batchVars, encVars, faults>>

\* failed?.(e); throw e
FailWith(loop, e) ==
    [loop EXCEPT !.pc = "done",
                 !.failedCalls = IF loop.withFailed THEN @ + 1 ELSE @,
                 !.out = Threw(e)]

\* fn() resolves: return await fn()
FnReturns(i, v) ==
    /\ loops[i].pc = "fn"
    /\ loops' = [loops EXCEPT ![i].pc = "done", ![i].out = Returned(v)]
    /\ UNCHANGED <<runningPromises, waitingFunctions, executing, finishing, rateLast>>
    /\ UNCHANGED <<cacheVars, batchVars, encVars, faults>>

\* fn() throws or rejects with e: the catch block up to await shouldRetry(e),
\* or, when retry is false, to its end
FnFails(i, e) ==
    /\ loops[i].pc = "fn"
    /\ loops' = [loops EXCEPT ![i] =
                    IF loops[i].retry
                      THEN [loops[i] EXCEPT !.pc = "shouldRetry", !.fnErr = e,
                                            !.asked = @ + 1]
                      ELSE FailWith([loops[i] EXCEPT !.fnErr = e], e)]
    /\ UNCHANGED <<runningPromises, waitingFunctions, executing, finishing, rateLast>>
    /\ UNCHANGED <<cacheVars, batchVars, encVars, faults>>

\* shouldRetry(e) resolves to answer: retry once, or fail
ShouldRetryAnswers(i, answer) ==
    /\ loops[i].pc = "shouldRetry"
    /\ loops' = [loops EXCEPT ![i] =
                    IF answer
                      THEN [loops[i] EXCEPT !.pc = "fn", !.retry = FALSE,
                                            !.attempts = @ + 1]
                      ELSE FailWith(loops[i], loops[i].fnErr)]
    /\ UNCHANGED <<runningPromises, waitingFunctions, executing, finishing, rateLast>>
    /\ UNCHANGED <<cacheVars, batchVars, encVars, faults>>

\* shouldRetry(e) throws or rejects with err (wasmSdkService.reinitialize
\* failed): the exception leaves the catch block
ShouldRetryFails(i, err) ==
    /\ loops[i].pc = "shouldRetry"
    /\ loops' = [loops EXCEPT ![i].pc = "done", ![i].out = Threw(err)]
    /\ UNCHANGED <<runningPromises, waitingFunctions, executing, finishing, rateLast>>
    /\ UNCHANGED <<cacheVars, batchVars, encVars, faults>>

\* ------------------------------------------------------------------------
\* Specifications.  The cache with getOrFetch and the batch queues share no
\* state, so each is explored on its own.
\* ------------------------------------------------------------------------
vars == <<caches, tagIndex, storage, hasWindow, inflight, fetches, calls,
          now, backendVer, mutator, last, queue, timers, windows, flights, promises,
          encIn, encOut, faults, runningPromises, waitingFunctions, executing,
          finishing, rateLast, loops>>

Init == CacheInit /\ BatchInit /\ EncIdle /\ NoFaults /\ HelperInit

Next ==
    \/ \E cacheName \in Names, key \in Keys : GetOrFetch(cacheName, key)
    \/ \E fid \in DOMAIN fetches, val \in (0 .. MaxVer) \cup {Null},
          options \in CacheOptions : FetchResolve(fid, val, options)
    \/ \E fid \in DOMAIN fetches, err \in Errors : FetchReject(fid, err)
    \/ \E cacheName \in Names, key \in Keys : Has(cacheName, key)
    \/ \E cacheName \in Names, key \in Keys : Delete(cacheName, key)
    \/ \E cacheName \in Names : Clear(cacheName)
    \/ \E tag \in Tags : InvalidateByTag(tag)
    \/ Cleanup
    \/ ClearAll
    \/ MutateBackend
    \/ InvalidateAfterMutate
    \/ Tick

Spec == Init /\ [][Next]_vars

\* the cache manager while nobody changes the backend: every fetcher reads
\* the one version there is
NextFetch ==
    \/ \E cacheName \in Names, key \in Keys : GetOrFetch(cacheName, key)
    \/ \E fid \in DOMAIN fetches, val \in (0 .. MaxVer) \cup {Null},
          options \in CacheOptions : FetchResolve(fid, val, options)
    \/ \E fid \in DOMAIN fetches, err \in Errors : FetchReject(fid, err)
    \/ \E cacheName \in Names, key \in Keys : Has(cacheName, key)
    \/ \E cacheName \in Names, key \in Keys : Delete(cacheName, key)
    \/ \E cacheName \in Names : Clear(cacheName)
    \/ \E tag \in Tags : InvalidateByTag(tag)
    \/ Cleanup
    \/ ClearAll
    \/ Tick

SpecFetch == Init /\ [][NextFetch]_vars

\* the cache manager across page reloads, with payloads that hold a Date
Payloads == {Null, 0, DateVal}
NextReload ==
    \/ \E cacheName \in Names, key \in Keys : GetOrFetch(cacheName, key)
    \/ \E fid \in DOMAIN fetches, val \in Payloads,
          options \in CacheOptions : FetchResolve(fid, val, options)
    \/ \E fid \in DOMAIN fetches, err \in Errors : FetchReject(fid, err)
    \/ \E cacheName \in Names, key \in Keys : Has(cacheName, key)
    \/ \E cacheName \in Names, key \in Keys : Delete(cacheName, key)
    \/ \E tag \in Tags : InvalidateByTag(tag)
    \/ Tick
    \/ Reload

SpecReload == Init /\ [][NextReload]_vars

\* the cache manager used with two pairs whose 'cacheName:key' strings are
\* the same: ('t', 'a:b') and ('t:a', 'b')
SamePairs == {<<<<"t">>, <<"a", "b">>>>, <<ColonName, ColonKey>>}
NextSame ==
    \/ \E p \in SamePairs : GetOrFetch(p[1], p[2])
    \/ \E fid \in DOMAIN fetches, val \in (0 .. MaxVer) \cup {Null},
          options \in CacheOptions : FetchResolve(fid, val, options)
    \/ \E fid \in DOMAIN fetches, err \in Errors : FetchReject(fid, err)
    \/ \E p \in SamePairs : Has(p[1], p[2])
    \/ \E p \in SamePairs : Delete(p[1], p[2])
    \/ \E p \in SamePairs : Clear(p[1])
    \/ \E tag \in Tags : InvalidateByTag(tag)
    \/ Tick

SpecSame == Init /\ [][NextSame]_vars

\* the cache manager over a localStorage that fails
NextFaulty ==
    \/ \E cacheName \in Names, key \in Keys : GetOrFetch(cacheName, key)
    \/ \E fid \in DOMAIN fetches, val \in {Null, 0},
          options \in CacheOptions : FetchResolve(fid, val, options)
    \/ \E cacheName \in Names, key \in Keys : Has(cacheName, key)
    \/ \E cacheName \in Names, key \in Keys : Delete(cacheName, key)
    \/ \E cacheName \in Names : Clear(cacheName)
    \/ \E tag \in Tags : InvalidateByTag(tag)
    \/ Cleanup
    \/ Tick
    \/ \E method \in StorageMethods : Break(method)
    \/ \E p \in Names \X Keys : Garble(CacheKeyOf(p[1], p[2]))

SpecFaulty == Init /\ [][NextFaulty]_vars

\* getOrFetch and getOrFetchBatch with fetchers that may call back into the
\* cache, or throw, before they return their promise
NextFlight ==
    \/ \E cacheName \in Names, key \in Keys : EnterGetOrFetch(cacheName, key)
    \/ \E cacheName \in Names, keys \in BatchLists :
          EnterGetOrFetchBatch(cacheName, keys)
    \/ FetcherReturns
    \/ \E err \in Errors : FetcherThrows(err)
    \/ \E fid \in DOMAIN fetches, val \in {Null, 0},
          options \in CacheOptions : SettleResolve(fid, val, options)
    \/ \E fid \in DOMAIN fetches, err \in Errors : SettleReject(fid, err)
    \/ \E fid \in DOMAIN fetches, fetched \in Fetched,
          options \in CacheOptions : BatchResolve(fid, fetched, options)
    \/ \E fid \in DOMAIN fetches, err \in Errors : BatchReject(fid, err)
    \/ Tick

SpecFlight == Init /\ [][NextFlight]_vars

\* rateLimit under any sequence of calls and completions
NextRate ==
    \/ RateLimit
    \/ \E outcome \in Outcomes : FnSettles(outcome)
    \/ RateLimitedFinished

SpecRate == Init /\ [][NextRate]_vars

\* the same, where every started function settles and every queued finally
\* callback runs
SpecRateFair ==
    /\ Init
    /\ [][NextRate]_vars
    /\ WF_vars(\E outcome \in Outcomes : FnSettles(outcome))
    /\ WF_vars(RateLimitedFinished)

\* retryLoop calls, each with any outcome of fn and of shouldRetry
NextRetry ==
    \/ \E withFailed \in BOOLEAN : RetryLoop(withFailed)
    \/ \E i \in DOMAIN loops, v \in Vals : FnReturns(i, v)
    \/ \E i \in DOMAIN loops, e \in Errors : FnFails(i, e)
    \/ \E i \in DOMAIN loops, answer \in BOOLEAN : ShouldRetryAnswers(i, answer)
    \/ \E i \in DOMAIN loops, err \in RetryErrors : ShouldRetryFails(i, err)

SpecRetry == Init /\ [][NextRetry]_vars

\* the calls of one wrapped method; its executions are the fetches
NextCached ==
    \/ \E args \in ArgLists : Cached(args)
    \/ \E fid \in DOMAIN fetches, val \in (0 .. MaxVer) \cup {Null},
          options \in CacheOptions : FetchResolve(fid, val, options)
    \/ \E fid \in DOMAIN fetches, err \in Errors : FetchReject(fid, err)
    \/ Tick

SpecCached == Init /\ [][NextCached]_vars

\* the encoders applied to every pair of values
InitEncode == CacheInit /\ BatchInit /\ EncInit /\ NoFaults /\ HelperInit
NextEncode ==
    \/ EncodeSafe
    \/ EncodeDefaultKey

SpecEncode == InitEncode /\ [][NextEncode]_vars

\* BaseDocumentService.get and the writes of one document type
NextDoc ==
    \/ DocGet
    \/ \E fid \in DOMAIN fetches, val \in (0 .. MaxVer) \cup {Null},
          options \in CacheOptions : FetchResolve(fid, val, options)
    \/ \E fid \in DOMAIN fetches, err \in Errors : FetchReject(fid, err)
    \/ MutateBackend
    \/ \E method \in Methods : AfterWrite(method)
    \/ Tick

SpecDoc == Init /\ [][NextDoc]_vars

\* PostService: cached reads and createPost
NextPost ==
    \/ GetPostStats
    \/ \E fid \in DOMAIN fetches, val \in (0 .. MaxVer) \cup {Null},
          options \in CacheOptions : FetchResolve(fid, val, options)
    \/ \E fid \in DOMAIN fetches, err \in Errors : FetchReject(fid, err)
    \/ MutateBackend
    \/ CreatePostReturn
    \/ Tick

SpecPost == Init /\ [][NextPost]_vars

NextBatch ==
    \/ \E key \in BatchKeys : Enqueue(key)
    \/ TimerFire
    \/ \E i \in DOMAIN flights, D \in SUBSET BatchKeys :
          \E data \in [D -> Vals] : HandlerReturn(i, data)
    \/ \E i \in DOMAIN flights, err \in Errors : HandlerThrow(i, err)

SpecBatch == Init /\ [][NextBatch]_vars

\* ------------------------------------------------------------------------
\* Properties of getOrFetch and of the cache store
\* ------------------------------------------------------------------------
CallSet == {calls[i] : i \in DOMAIN calls}
Carrying(tag) == {p \in Pairs : caches[p].present /\ tag \in caches[p].tags}
\* the step is a getOrFetch call; last' tells its arguments and its answer
GetOrFetchStep == last'.op = "getOrFetch"
NewestHolder == calls'[Len(calls')]

\* C1: calls for one (cacheName, key) that find no live entry while a fetch
\* for that pair is unsettled start no second fetcher: at most one fetch per
\* pair is unsettled at any time, and every such call is handed the promise
\* of that one fetch, so it settles with that fetch's outcome.
C1_OnePending == \A p \in Pairs : Cardinality(PendingOn(p[1], p[2])) <= 1
C1_JoinStep ==
    (GetOrFetchStep /\ last'.mode # "hit" /\ PendingOn(last'.name, last'.key) # {}) =>
        /\ last'.mode = "join"
        /\ fetches' = fetches
        /\ Len(calls') = Len(calls) + 1
        /\ PendingOn(last'.name, last'.key) = {NewestHolder.fid}
C2_RejectStep ==
    \A fid \in DOMAIN fetches :
        (fetches[fid].st = "pending" /\ fetches'[fid].st = "rejected") =>
            /\ caches' = caches /\ tagIndex' = tagIndex /\ storage' = storage
            /\ inflight'[CacheKeyOf(fetches[fid].name, fetches[fid].key)] = 0
            /\ fetches'[fid].val \in Errors
C2_RetryStep ==
    (GetOrFetchStep /\ last'.mode # "hit") =>
        /\ Len(calls') = Len(calls) + 1
        /\ fetches'[NewestHolder.fid].st = "pending"
        /\ PendingOn(last'.name, last'.key) = {} =>
              (last'.mode = "start" /\ Len(fetches') = Len(fetches) + 1)
C2_NoDanglingSlot ==
    \A ck \in CacheKeys : inflight[ck] # 0 => fetches[inflight[ck]].st = "pending"
C3_InvalidateExact ==
    [][last'.op = "invalidateByTag" =>
         /\ caches' = [p \in Pairs |-> IF p \in Carrying(last'.tag)
                                         THEN NoEntry ELSE caches[p]]
         /\ last'.ret = Cardinality(Carrying(last'.tag))]_vars

\* C4: a getOrFetch that begins after 'mutate the backend, then
\* invalidateByTag' has returned never yields a value older than that
\* mutation, neither from the cache nor through the promise it is handed.
C4_NoStaleAfterInvalidate ==
    /\ (last.op = "getOrFetch" /\ last.mode = "hit" /\ last.val # Null) =>
          last.val >= last.minVer
    /\ \A c \in CallSet :
          (fetches[c.fid].st = "resolved" /\ fetches[c.fid].val # Null) =>
              fetches[c.fid].val >= c.minVer

\* C5: a getOrFetch for a pair whose stored entry is live returns the stored
\* data and invokes no fetcher, whatever the stored value.
C5_LiveEntryIsReturned ==
    [][GetOrFetchStep =>
         LET e == caches[<<last'.name, last'.key>>]
         IN (e.present /\ ~Expired(e, now)) =>
                /\ last'.mode = "hit"
                /\ last'.val = e.data
                /\ fetches' = fetches]_vars

\* C6: for an entry stored at timestamp t0 with ttl T, has() answers true
\* while now - t0 <= T and false afterwards, and the first has or getOrFetch
\* after expiry removes the entry from the namespace map, from every set of
\* the tag index and from the durable store.
Evicted(p) ==
    /\ ~caches'[p].present
    /\ \A tag \in Tags : CacheKeyOf(p[1], p[2]) \notin tagIndex'[tag]
    /\ storage'[CacheKeyOf(p[1], p[2])] = NoItem
C6_TtlExpiry ==
    [][/\ last'.op = "has" =>
            LET p == <<last'.name, last'.key>>
            IN caches[p].present =>
                 /\ last'.ret = ~Expired(caches[p], now)
                 /\ Expired(caches[p], now) => Evicted(p)
       /\ GetOrFetchStep =>
            LET p == <<last'.name, last'.key>>
            IN (caches[p].present /\ Expired(caches[p], now)) => Evicted(p)
      ]_vars

\* ------------------------------------------------------------------------
\* Properties of enqueueBatch
\* ------------------------------------------------------------------------
\* the enqueue calls of window w, and their keys in the order of first enqueue
CallsOf(w) == {pid \in DOMAIN promises : promises[pid].win = w}
RECURSIVE KeysUpTo(_, _)
KeysUpTo(w, n) ==
    IF n = 0 THEN <<>>
    ELSE IF promises[n].win = w
           THEN SetAdd(KeysUpTo(w, n - 1), promises[n].key)
           ELSE KeysUpTo(w, n - 1)
KeysOf(w) == KeysUpTo(w, Len(promises))
Done(i) == i \in DOMAIN flights /\ flights[i].st # "running"

\* one flush per window: flush i takes the keys of window i, in enqueue order
OneFlushPerWindow ==
    /\ Len(flights) + timers = windows
    /\ timers <= 1
    /\ \A i \in DOMAIN flights : flights[i].keys = KeysOf(i)

\* C7: the enqueue calls of one window cause one handler invocation, which
\* receives the keys of the window in enqueue order, and every call's
\* promise resolves to the value the handler returned for its key.
C7_WindowCoalesced ==
    /\ OneFlushPerWindow
    /\ \A i \in DOMAIN flights : flights[i].st = "returned" =>
         \A pid \in CallsOf(i) :
            promises[pid].key \in DOMAIN flights[i].out =>
               /\ promises[pid].st = "resolved"
               /\ promises[pid].val = Value(flights[i].out[promises[pid].key])

\* C8: the promises of all enqueue calls of one key in one window settle,
\* with the same result, once the handler invocation of the window is over.
C8_SameKeySettlesAll ==
    \A p1, p2 \in DOMAIN promises :
        (/\ promises[p1].win = promises[p2].win
         /\ promises[p1].key = promises[p2].key
         /\ p1 # p2
         /\ Done(promises[p1].win)) =>
            /\ promises[p1].st # "pending"
            /\ promises[p1].st = promises[p2].st
            /\ promises[p1].val = promises[p2].val

\* C9: once the handler of a flushed batch has settled, no promise of an
\* enqueue call of that batch is pending, and a call whose key the handler
\* returned no result for is rejected with the missing-result error that
\* names the key.
C9_MissingResultRejected ==
    \A pid \in DOMAIN promises :
        Done(promises[pid].win) =>
            /\ promises[pid].st # "pending"
            /\ (/\ flights[promises[pid].win].st = "returned"
                /\ promises[pid].key \notin DOMAIN flights[promises[pid].win].out) =>
                   /\ promises[pid].st = "rejected"
                   /\ promises[pid].val = MissingResult(promises[pid].key)

\* C10: when the handler throws, the promise of every entry of the flushed
\* batch (every resolver of the copied map) is rejected with the thrown
\* error, and the step changes no promise outside that batch and nothing of
\* the queue that collects the next window.
EntriesOf(i) == {flights[i].resolvers[k] : k \in BatchKeys} \ {0}
C10_ThrowStep ==
    \A i \in DOMAIN flights :
        (flights[i].st = "running" /\ flights'[i].st = "threw") =>
            /\ \A pid \in EntriesOf(i) :
                  /\ promises'[pid].st = "rejected"
                  /\ promises'[pid].val = flights'[i].out
            /\ \A pid \in DOMAIN promises \ EntriesOf(i) :
                  promises'[pid] = promises[pid]
            /\ queue' = queue /\ timers' = timers
C10_ThrownRejected ==
    \A i \in DOMAIN flights : flights[i].st = "threw" =>
        \A pid \in EntriesOf(i) :
            promises[pid].st = "rejected" /\ promises[pid].val = flights[i].out
ResolvedFor(key) ==
    {Value(flights[i].out[key]) :
        i \in {j \in DOMAIN flights : /\ flights[j].st = "returned"
                                      /\ key \in DOMAIN flights[j].out}}

\* C11: an enqueue of a key for which a handler invocation has already
\* returned a result (no time has passed since, so a stored result is live)
\* is answered with that result: it registers nothing in the queue, starts
\* no flush timer and so causes no further handler invocation.
C11_ResolvedKeyServedFromCache ==
    [][\A key \in BatchKeys :
         (/\ Len(promises') = Len(promises) + 1
          /\ promises'[Len(promises')].key = key
          /\ ResolvedFor(key) # {}) =>
             /\ queue' = queue
             /\ timers' = timers
             /\ windows' = windows
             /\ promises'[Len(promises')].st = "resolved"
             /\ promises'[Len(promises')].val \in ResolvedFor(key)]_vars

\* ------------------------------------------------------------------------
\* Properties of the durable copies
\* ------------------------------------------------------------------------
\* the step is a has or getOrFetch of a pair that is not in memory while
\* localStorage holds a live copy of it
ReadsDurable(p) ==
    /\ last'.op \in {"has", "getOrFetch"}
    /\ <<last'.name, last'.key>> = p
    /\ ~caches[p].present
    /\ hasWindow
    /\ storage[CacheKeyOf(p[1], p[2])].kind = "json"
    /\ ~Expired(Parse(storage[CacheKeyOf(p[1], p[2])].text), now)

\* C12: a read on a fresh instance of a pair whose live durable copy an
\* earlier instance wrote returns the value that was written and registers
\* the pair under the tags it was written with; an invalidateByTag on one
\* of those tags that follows the read removes the entry and counts it.
C12_HydrateStep ==
    \A p \in Pairs : ReadsDurable(p) =>
        LET item == storage[CacheKeyOf(p[1], p[2])]
        IN /\ last'.hyd
           /\ caches'[p].present
           /\ caches'[p].data = item.from
           /\ \A tag \in item.text.tags : CacheKeyOf(p[1], p[2]) \in tagIndex'[tag]
           /\ (last'.op = "getOrFetch" /\ last'.mode = "hit") => last'.val = item.from
C12_InvalidateStep ==
    (/\ last.op \in {"has", "getOrFetch"}
     /\ last.hyd
     /\ last'.op = "invalidateByTag"
     /\ caches[<<last.name, last.key>>].present
     /\ last'.tag \in caches[<<last.name, last.key>>].tags) =>
        /\ ~caches'[<<last.name, last.key>>].present
        /\ Carrying(last'.tag) = {<<last.name, last.key>>} => last'.ret = 1
C12_HydratedAcrossInstances == [][C12_HydrateStep /\ C12_InvalidateStep]_vars

\* ------------------------------------------------------------------------
\* Properties of pairs whose names or keys contain ':'
\* ------------------------------------------------------------------------
KeyOfPair(p) == CacheKeyOf(p[1], p[2])
\* what the instance holds for pair p: its entry, its tag registrations and
\* the durable copy it wrote
OwnCopy(p, store) ==
    IF store[KeyOfPair(p)].kind = "json" /\ store[KeyOfPair(p)].by = p
      THEN store[KeyOfPair(p)] ELSE NoItem
Registered(p, index) ==
    IF caches[p].present
      THEN {tag \in caches[p].tags : KeyOfPair(p) \in index[tag]} ELSE {}

\* C13: different (cacheName, key) pairs do not interfere: a getOrFetch
\* joins only a fetch of its own pair and returns only a value stored for
\* its own pair, in memory or in localStorage; a delete touches nothing of
\* another pair; invalidateByTag removes every entry that carries the tag
\* and no entry that does not.
C13_GetOrFetchStep ==
    GetOrFetchStep =>
        LET p == <<last'.name, last'.key>>
        IN /\ last'.mode = "join" =>
                 /\ fetches[NewestHolder.fid].name = p[1]
                 /\ fetches[NewestHolder.fid].key = p[2]
           /\ last'.hyd => storage[KeyOfPair(p)].by = p
C13_DeleteStep ==
    last'.op = "delete" =>
        \A q \in Pairs \ {<<last'.name, last'.key>>} :
            /\ caches'[q] = caches[q]
            /\ OwnCopy(q, storage') = OwnCopy(q, storage)
            /\ Registered(q, tagIndex') = Registered(q, tagIndex)
C13_InvalidateStep ==
    last'.op = "invalidateByTag" =>
        \A q \in Pairs :
            IF q \in Carrying(last'.tag)
              THEN ~caches'[q].present
              ELSE caches'[q] = caches[q]
C13_PairsDoNotInterfere ==
    [][C13_GetOrFetchStep /\ C13_DeleteStep /\ C13_InvalidateStep]_vars

\* ------------------------------------------------------------------------
\* Properties of the cached() wrapper
\* ------------------------------------------------------------------------
\* C14: a call of the wrapped method whose key has an execution in flight
\* or a live stored result starts no execution: it is handed the promise of
\* the execution in flight, or the stored result; an execution that rejects
\* stores nothing and its promise carries the error it rejected with.
C14_CallStep ==
    GetOrFetchStep =>
        LET p == <<last'.name, last'.key>>
            live == caches[p].present /\ ~Expired(caches[p], now)
        IN /\ (live \/ PendingOn(p[1], p[2]) # {}) => fetches' = fetches
           /\ live => (last'.mode = "hit" /\ last'.val = caches[p].data)
           /\ (~live /\ PendingOn(p[1], p[2]) # {}) =>
                 (last'.mode = "join" /\ NewestHolder.fid \in PendingOn(p[1], p[2]))
C14_RejectStep ==
    \A fid \in DOMAIN fetches :
        (fetches[fid].st = "pending" /\ fetches'[fid].st = "rejected") =>
            /\ caches' = caches /\ storage' = storage
            /\ fetches'[fid].val \in Errors
C14_WrappedRunsOnce == [][C14_CallStep /\ C14_RejectStep]_vars

\* ------------------------------------------------------------------------
\* Properties of the key encoders
\* ------------------------------------------------------------------------
\* structural equality: the same number, arrays with equal elements in the
\* same order, objects with the same property names and equal values
RECURSIVE StructEq(_, _)
StructEq(v, w) ==
    IF v.t # w.t THEN FALSE
    ELSE IF v.t = "num" THEN v.n = w.n
    ELSE IF v.t = "arr"
      THEN /\ Len(v.items) = Len(w.items)
           /\ \A i \in DOMAIN v.items : StructEq(v.items[i], w.items[i])
    ELSE /\ {v.props[i].k : i \in DOMAIN v.props} = {w.props[i].k : i \in DOMAIN w.props}
         /\ \A i \in DOMAIN v.props : \A j \in DOMAIN w.props :
                v.props[i].k = w.props[j].k => StructEq(v.props[i].v, w.props[j].v)

\* C15: both encoders (safeStringify, and the default key of the cached
\* wrapper) give structurally equal values the same string, whatever the
\* insertion order of their properties at any depth, and give arrays that
\* differ in the order of their elements different strings.
C15_StableKeys ==
    encOut.by # "none" =>
        /\ StructEq(encIn[1], encIn[2]) => encOut.a = encOut.b
        /\ (/\ encIn[1].t = "arr" /\ encIn[2].t = "arr"
            /\ ~StructEq(encIn[1], encIn[2])) => encOut.a # encOut.b

\* ------------------------------------------------------------------------
\* Properties of the services that use the cache
\* ------------------------------------------------------------------------
\* C16: when create, update or delete of a document type has completed,
\* no entry stored for that type (tagged 'doctype:<type>') is left in
\* memory or in localStorage, so the next get finds nothing to return.
C16_WriteInvalidatesType ==
    [][last'.op = "written" =>
         \A p \in Pairs : (caches[p].present /\ "A" \in caches[p].tags) =>
             /\ ~caches'[p].present
             /\ storage'[KeyOfPair(p)] = NoItem]_vars

\* C17: when createPost returns the new post it has called
\* invalidateByTag('doctype:post') (tag "A").
C17_CreatePostInvalidates ==
    last.op = "createPost" => "A" \in last.invalidated

\* ------------------------------------------------------------------------
\* Properties of cleanup and clear
\* ------------------------------------------------------------------------
ExpiredNow == {p \in Pairs : caches[p].present /\ Expired(caches[p], now)}
LiveNow == {p \in Pairs : caches[p].present /\ ~Expired(caches[p], now)}

\* C18: cleanup() removes every entry with now - timestamp > ttl from its
\* namespace, from every set of the tag index and from localStorage, leaves
\* every live entry with its registrations and its durable copy as they
\* were, and returns the number of entries it removed.
C18_CleanupStep ==
    last'.op = "cleanup" =>
        /\ \A p \in ExpiredNow : Evicted(p)
        /\ \A p \in LiveNow :
              /\ caches'[p] = caches[p]
              /\ OwnCopy(p, storage') = OwnCopy(p, storage)
              /\ Registered(p, tagIndex') = Registered(p, tagIndex)
        /\ \A p \in Pairs : ~caches[p].present => ~caches'[p].present
        /\ last'.ret = Cardinality(ExpiredNow)
C18_CleanupSweeps == [][C18_CleanupStep]_vars

\* C19: clear(cacheName) removes every entry of that namespace from memory,
\* from the tag index and from localStorage, and leaves the entries, the
\* tag registrations and the durable copies of every other namespace as
\* they were.
C19_ClearStep ==
    last'.op = "clear" =>
        \A p \in Pairs :
            IF p[1] = last'.name
              THEN Evicted(p)
              ELSE /\ caches'[p] = caches[p]
                   /\ OwnCopy(p, storage') = OwnCopy(p, storage)
                   /\ Registered(p, tagIndex') = Registered(p, tagIndex)
C19_ClearFrame == [][C19_ClearStep]_vars

\* ------------------------------------------------------------------------
\* Properties of the cache over a failing localStorage
\* ------------------------------------------------------------------------
Unparsable(p) ==
    /\ hasWindow
    /\ ~caches[p].present
    /\ storage[KeyOfPair(p)].kind = "corrupt"

\* C20: no failure of localStorage makes has, getOrFetch, delete, clear,
\* invalidateByTag or cleanup throw or reject, and a read of a stored text
\* that cannot be parsed removes the text and is a miss.
C20_ReadStep ==
    /\ last'.op = "has" =>
           /\ ~last'.threw
           /\ Unparsable(<<last'.name, last'.key>>) =>
                  /\ storage'[CacheKeyOf(last'.name, last'.key)] = NoItem
                  /\ ~last'.ret
    /\ last'.op = "getOrFetch" =>
           /\ last'.mode # "threw"
           /\ Unparsable(<<last'.name, last'.key>>) =>
                  /\ storage'[CacheKeyOf(last'.name, last'.key)] = NoItem
                  /\ last'.mode # "hit"
C20_StorageFailuresContained == [][C20_ReadStep]_vars

\* ------------------------------------------------------------------------
\* Properties of the tag index and of the in-flight table
\* ------------------------------------------------------------------------
\* the tags listed by the entries stored at the pairs named by cacheKey
ListedTags(cacheKey) ==
    UNION {caches[p].tags : p \in {q \in Pairs : /\ KeyOfPair(q) = cacheKey
                                                  /\ caches[q].present}}

\* C21: a 'cacheName:key' string is registered under tag T if and only if
\* the entry currently stored at that pair lists T; an overwrite removes the
\* pair from the tags the new entry no longer has.
C21_TagIndexExact ==
    \A cacheKey \in CacheKeys, tag \in Tags :
        cacheKey \in tagIndex[tag] <=> tag \in ListedTags(cacheKey)

Unsettled(fid) == fetches[fid].st \in {"running", "pending"}

\* C22: the in-flight table holds an entry exactly while the fetch that
\* registered it is unsettled: a registered promise is unsettled and is a
\* fetch of that key, a fetch that has suspended stays registered under each
\* of its keys until it settles, and at most one fetch per key is unsettled.
C22_InflightTracksFetches ==
    /\ \A ck \in CacheKeys :
           inflight[ck] # 0 => /\ Unsettled(inflight[ck])
                               /\ ck \in FlightKeys(fetches[inflight[ck]])
    /\ \A fid \in DOMAIN fetches :
           fetches[fid].st = "pending" =>
               \A ck \in FlightKeys(fetches[fid]) : inflight[ck] = fid

\* the unsettled fetches that getOrFetch started for (cacheName, key)
UnsettledOn(cacheName, key) ==
    {fid \in DOMAIN fetches : /\ Unsettled(fid)
                              /\ fetches[fid].key = key
                              /\ fetches[fid].name = cacheName}
C23_Registered ==
    \A fid \in DOMAIN fetches :
        (fetches[fid].st = "running" /\ fetches[fid].key # NoKey) =>
            inflight[CacheKeyOf(fetches[fid].name, fetches[fid].key)] = fid
C23_NoSecondFetch ==
    \A p \in Pairs : Cardinality(UnsettledOn(p[1], p[2])) <= 1

\* C23: the in-flight entry of a getOrFetch is registered before its
\* fetcher begins to execute, so nothing that runs before the first
\* suspension point, the synchronous part of the fetcher included, starts a
\* second fetch for the key.
C23_RegisteredBeforeFetcherRuns == C23_Registered /\ C23_NoSecondFetch

\* the value the fetch of a resolved promise produced for key: the fetcher's
\* result for getOrFetch, the mapping's value for getOrFetchBatch
HasFetchedFor(f, key) == "fetched" \in DOMAIN f => key \in DOMAIN f.fetched
FetchedFor(f, key) == IF "fetched" \in DOMAIN f THEN f.fetched[key] ELSE f.val

\* C25: a getOrFetch call that was handed an in-flight promise resolves to
\* the value fetched for its key, also when getOrFetchBatch registered the
\* promise.
C25_JoinerGetsFetchedValue ==
    \A i \in DOMAIN calls :
        LET f == fetches[calls[i].fid]
        IN (f.st = "resolved" /\ HasFetchedFor(f, calls[i].key)) =>
               f.val = FetchedFor(f, calls[i].key)

\* a read of pair p would find a live entry, in memory or in localStorage
ReadableNow(p) ==
    \/ caches[p].present /\ ~Expired(caches[p], now)
    \/ /\ ~caches[p].present
       /\ hasWindow
       /\ storage[KeyOfPair(p)].kind = "json"
       /\ ~Expired(Parse(storage[KeyOfPair(p)].text), now)

\* the unsettled fetches that cover (cacheName, key)
InFlightOn(cacheName, key) ==
    {fid \in DOMAIN fetches : /\ Unsettled(fid)
                              /\ CacheKeyOf(cacheName, key) \in FlightKeys(fetches[fid])}

\* C26: getOrFetchBatch invokes batchFetcher at most once, with exactly the
\* requested keys that are neither live in the cache nor in flight when it
\* is called, and every key the batchFetcher returns for them is stored as
\* an entry of its own.
C26_CallStep ==
    last'.op = "getOrFetchBatch" =>
        /\ last'.fetchNeeded =
               {k \in last'.keys : /\ ~ReadableNow(<<last'.name, k>>)
                                   /\ InFlightOn(last'.name, k) = {}}
        /\ IF last'.fetchNeeded = {}
             THEN fetches' = fetches
             ELSE /\ Len(fetches') = Len(fetches) + 1
                  /\ fetches'[Len(fetches')].keys = last'.fetchNeeded
C26_StoreStep ==
    \A fid \in DOMAIN fetches :
        (fetches[fid].st = "pending" /\ fetches'[fid].st = "resolved"
            /\ "fetched" \in DOMAIN fetches'[fid]) =>
            \A k \in DOMAIN fetches'[fid].fetched :
                /\ caches'[<<fetches[fid].name, k>>].present
                /\ caches'[<<fetches[fid].name, k>>].data = fetches'[fid].fetched[k]
C26_BatchFetchesMissingOnly == [][C26_CallStep /\ C26_StoreStep]_vars

\* ------------------------------------------------------------------------
\* Properties of the batch windows
\* ------------------------------------------------------------------------
Executing == {i \in DOMAIN flights : flights[i].st = "running"}

\* every handler invocation got the keys enqueued in its window, no others
C24_FlushHasItsWindow ==
    /\ Len(flights) + timers = windows
    /\ \A i \in DOMAIN flights : flights[i].keys = KeysOf(i)
    /\ \A pid \in DOMAIN promises :
           promises[pid].win > Len(flights) =>
               /\ queue.timer /\ timers = 1
               /\ \E n \in DOMAIN queue.keys : queue.keys[n] = promises[pid].key
\* the timer callback swaps the queue out before it calls the handler
C24_FireStep ==
    Len(flights') = Len(flights) + 1 =>
        /\ flights'[Len(flights')].keys = queue.keys
        /\ flights'[Len(flights')].resolvers = queue.resolvers
        /\ flights'[Len(flights')].st = "running"
        /\ queue'.keys = <<>>
        /\ \A k \in BatchKeys : queue'.resolvers[k] = 0
        /\ ~queue'.timer
        /\ \A i \in DOMAIN flights : flights'[i] = flights[i]
\* an enqueue never reaches a handler that has been invoked already
C24_EnqueueStep ==
    Len(promises') = Len(promises) + 1 =>
        /\ flights' = flights
        /\ promises'[Len(promises')].win > Len(flights)
        /\ queue'.timer
        /\ (Executing # {} /\ timers = 0) =>
               (timers' = 1 /\ windows' = windows + 1)

\* C24: the timer callback swaps out the pending keys and resolvers and
\* clears the timer before it invokes the handler, the handler is invoked
\* once per window with exactly the keys of that window, and a key enqueued
\* while a handler is executing goes into a new window with a new timer and
\* reaches a later invocation, never the executing one.
C24_WindowsNeverSpan ==
    []C24_FlushHasItsWindow /\ [][C24_FireStep /\ C24_EnqueueStep]_vars

C24_Witness ==
    /\ Len(flights) = 2
    /\ flights[1].st = "running"
    /\ \E p1, p2 \in DOMAIN promises :
          /\ promises[p1].win = 1 /\ promises[p2].win = 2
          /\ promises[p1].key = promises[p2].key
          /\ flights[2].keys = <<promises[p2].key>>
          /\ \E n \in DOMAIN flights[1].keys : flights[1].keys[n] = promises[p1].key

\* ------------------------------------------------------------------------
\* Properties of invalidation across instances
\* ------------------------------------------------------------------------
\* the durable copies whose stored tags include tag
DurableCarrying(store, tag) ==
    {ck \in CacheKeys : store[ck].kind = "json" /\ tag \in store[ck].text.tags}

\* C27: when invalidateByTag(tag) returns, localStorage holds no entry whose
\* stored tags include tag, whether or not this instance has read it.
C27_InvalidateStep ==
    (last'.op = "invalidateByTag" /\ hasWindow) =>
        DurableCarrying(storage', last'.tag) = {}
C27_InvalidateReachesDurable == [][C27_InvalidateStep]_vars

\* ------------------------------------------------------------------------
\* Properties of rateLimit
\* ------------------------------------------------------------------------
\* C28: at every moment at most RUNNING_LIMIT functions passed to rateLimit
\* are executing, whatever the calls and the completions, resolved or
\* rejected.
C28_AtMostLimitRunning ==
    /\ executing <= RUNNING_LIMIT
    /\ executing + finishing = runningPromises
    /\ runningPromises <= RUNNING_LIMIT

C28_Witness ==
    /\ executing = RUNNING_LIMIT
    /\ Len(waitingFunctions) = 1
    /\ rateLast = [op |-> "finished", started |-> 2]

\* a call is put aside only while every slot is taken
C29_WaitsOnlyWhenFull ==
    waitingFunctions # <<>> => executing + finishing = RUNNING_LIMIT
\* a completion starts one call that was put aside if there is one, and the
\* counter goes down only when there is none
C29_FinishedStep ==
    /\ (finishing' < finishing /\ waitingFunctions # <<>>) =>
           /\ Len(waitingFunctions') = Len(waitingFunctions) - 1
           /\ executing' = executing + 1
           /\ runningPromises' = runningPromises
    /\ runningPromises' < runningPromises => waitingFunctions = <<>>
\* every call that was put aside is started
C29_Started == \A ticket \in Tickets : (ticket \in Waiting) ~> (ticket \notin Waiting)

\* C29: provided every started function settles, every function passed to
\* rateLimit is eventually started; a call waits only while RUNNING_LIMIT
\* functions are running, each completion starts one waiting call if there
\* is one, and the counter is decremented only when none is waiting.
C29_EveryCallStarts ==
    []C29_WaitsOnlyWhenFull /\ [][C29_FinishedStep]_vars /\ C29_Started

\* ------------------------------------------------------------------------
\* Properties of retryLoop
\* ------------------------------------------------------------------------
\* C30: retryLoop invokes fn at most twice, the second time only after the
\* first attempt failed and shouldRetry resolved to true; a call that fails
\* has invoked the failed callback exactly once and throws the error of the
\* last fn attempt.
C30_RetryOnce ==
    \A i \in DOMAIN loops :
        /\ loops[i].attempts <= 2
        /\ loops[i].attempts = 2 => (loops[i].asked = 1 /\ ~loops[i].retry)
        /\ loops[i].out.kind = "thrown" =>
               /\ loops[i].withFailed => loops[i].failedCalls = 1
               /\ loops[i].out.err = loops[i].fnErr

====
